---- MODULE Spec2Model ----
(***************************************************************************)
(* Model of the variables engine: the data puller                          *)
(* (src/src/org/boxbuilder/variablesengine/data_puller.py) and the         *)
(* evaluation engine (engine.py).  The data puller:                        *)
(*   - build_dependency_graph: the name-keyed dependency / foreign-key     *)
(*     graph of a Project;                                                 *)
(*   - get_required_variables: the per-entity worklist that closes the     *)
(*     requested and provided names under dependencies and adds "id" to    *)
(*     entities referenced by foreign keys;                                *)
(*   - _build_optimal_query and pull_data: one batched fetch and the       *)
(*     reshaping of its rows.                                              *)
(* The connection pools of the QueryHelper                                 *)
(* (src/src/org/boxbuilder/database/postgres/query_helper.py) are at the   *)
(* end.                                                                    *)
(* Python dicts that are iterated are modelled with their insertion order: *)
(* an ordered dict is a record [keys: sequence, val: function].  set.pop() *)
(* returns an arbitrary element, so the worklist pops nondeterministically.*)
(***************************************************************************)
EXTENDS Integers, Sequences, FiniteSets, TLC

VARIABLES
    call,               \* which public method is running
    project,            \* the Project argument
    requested_outputs,  \* ordered dict entity name -> list of names
    provided_inputs,    \* ordered dict entity name -> dict name -> value
    pc,                 \* position in the running method
    required_vars,      \* the defaultdict(set) of get_required_variables
    snapshot,           \* list(required_vars.items()) of line 65: the entity names
    idx,                \* index of the entity whose worklist is running
    to_process,         \* the worklist of the current entity
    pop_count,          \* history: how often (0, 1, more) a name was popped for an entity
    fk_added,           \* history: entities that got "id" from line 81
    query,              \* the query compiled by _build_optimal_query
    fetch_count,        \* history: calls of get_query_results_as_dictionaries
    store_raised,       \* history: the store call raised
    query_results,      \* the rows the store returned
    results,            \* the mapping pull_data returns
    function_registry,  \* Engine.function_registry
    inputs,             \* the inputs argument of Engine.execute
    outputs,            \* the outputs argument of Engine.execute
    execution,          \* the Engine.execute call: its position and its locals
    threads,            \* concurrent Engine.execute calls: arguments, position, results
    thread_locals,      \* the calculated_values (and history) of each call frame
    db_pool,            \* QueryHelper._db_pool: ordered dict database name -> pool
    pools,              \* history: the pools asyncpg.create_pool made, open or closed
    coroutines          \* the coroutines calling the QueryHelper: position and locals

puller_vars == <<call, project, requested_outputs, provided_inputs, pc, required_vars,
                 snapshot, idx, to_process, pop_count, fk_added, query, fetch_count,
                 store_raised, query_results, results>>
engine_vars == <<function_registry, inputs, outputs, execution, threads, thread_locals>>
helper_vars == <<db_pool, pools, coroutines>>
vars == <<puller_vars, engine_vars, helper_vars>>

(***************************************************************************)
(* Bounds and universes                                                    *)
(***************************************************************************)
MaxRequested == 2
MaxRows == 2
MaxOutputs == 2
MaxChain == 3
MaxCoroutines == 3

EntityNames == {"A", "B"}
VarNames == {"id", "fk", "x"}
OpaqueNames == {"y"}
Names == VarNames \cup OpaqueNames
InstanceIds == {"i1", "i2"}

Range(s) == {s[i] : i \in 1..Len(s)}

\* A Python dict with string keys and no iteration in the code is a set of
\* <<key, value>> pairs with distinct keys.
DictKeys(d) == {p[1] : p \in d}
DictGet(d, k) == (CHOOSE p \in d : p[1] = k)[2]

\* A fixed order of the names, to write a set of names as one list.
NameOrder == <<"fk", "id", "x", "y">>

RECURSIVE ListOf(_, _)
ListOf(S, i) ==
    IF i > Len(NameOrder) THEN <<>>
    ELSE IF NameOrder[i] \in S THEN <<NameOrder[i]>> \o ListOf(S, i + 1)
    ELSE ListOf(S, i + 1)

(***************************************************************************)
(* Domain model: models/variable.py, models/project.py                     *)
(***************************************************************************)
Entity(id, name) == [id |-> id, name |-> name]

Variable(id, name, entity_id, is_input, function_name, metadata) ==
    [id |-> id, name |-> name, entity_id |-> entity_id, is_input |-> is_input,
     function_name |-> function_name, metadata |-> metadata]

\* metadata: the keys the code reads.  An absent key is the empty list /
\* the empty dict, which is what metadata.get(...) makes of it.
Metadata(input_vars, foreign_key) ==
    [input_variables |-> input_vars, foreign_key |-> foreign_key]

\* Variable.input_variables (property)
input_variables(variable) == variable.metadata.input_variables

Project(entities, variables) == [entities |-> entities, variables |-> variables]

(***************************************************************************)
(* build_dependency_graph                                                  *)
(***************************************************************************)
VariableDependency(variable, dependencies, foreign_keys) ==
    [variable |-> variable, dependencies |-> dependencies, foreign_keys |-> foreign_keys]

\* Line 33 raises KeyError when a truthy foreign_key descriptor has no
\* 'entity' key.
build_dependency_graph_raises(proj) ==
    \E i \in 1..Len(proj.variables) :
        LET fk == proj.variables[i].metadata.foreign_key
        IN fk # {} /\ "entity" \notin DictKeys(fk)

\* A graph whose dependencies include the dependencies of the dependencies.
build_dependency_graph_transitive(proj) ==
    LET vs == proj.variables
        last(n) == CHOOSE i \in 1..Len(vs) :
                       /\ vs[i].name = n
                       /\ \A j \in (i + 1)..Len(vs) : vs[j].name # n
        direct(n) == IF \E i \in 1..Len(vs) : vs[i].name = n
                     THEN Range(input_variables(vs[last(n)])) ELSE {}
        entry(v) ==
            VariableDependency(
                v,
                direct(v.name) \cup UNION {direct(m) : m \in direct(v.name)},
                IF v.metadata.foreign_key # {}
                THEN {<<v.name, DictGet(v.metadata.foreign_key, "entity")>>}
                ELSE {})
    IN [n \in {vs[i].name : i \in 1..Len(vs)} |-> entry(vs[last(n)])]

\* One entry per variable name; a later variable of the same name overwrites
\* the earlier one (graph[variable.name] = ...).
build_dependency_graph(proj) ==
    LET vs == proj.variables
        last(n) == CHOOSE i \in 1..Len(vs) :
                       /\ vs[i].name = n
                       /\ \A j \in (i + 1)..Len(vs) : vs[j].name # n
        entry(v) ==
            VariableDependency(
                v,
                Range(input_variables(v)),
                IF v.metadata.foreign_key # {}
                THEN {<<v.name, DictGet(v.metadata.foreign_key, "entity")>>}
                ELSE {})
    IN [n \in {vs[i].name : i \in 1..Len(vs)} |-> entry(vs[last(n)])]

(***************************************************************************)
(* Ordered dicts keyed by entity name                                      *)
(***************************************************************************)
HasKey(d, k) == k \in Range(d.keys)

\* defaultdict(set): required_vars[k].update(S) creates the key when absent.
SetUpdate(d, k, S) ==
    [keys |-> IF HasKey(d, k) THEN d.keys ELSE Append(d.keys, k),
     val |-> [d.val EXCEPT ![k] = @ \cup S]]

NoSets == [e \in EntityNames |-> {}]

RECURSIVE seed_requested(_, _, _)
\* lines 57-58
seed_requested(d, req, i) ==
    IF i > Len(req.keys) THEN d
    ELSE seed_requested(SetUpdate(d, req.keys[i], Range(req.val[req.keys[i]])), req, i + 1)

RECURSIVE seed_provided(_, _, _)
\* lines 61-62
seed_provided(d, inp, i) ==
    IF i > Len(inp.keys) THEN d
    ELSE seed_provided(SetUpdate(d, inp.keys[i], DictKeys(inp.val[inp.keys[i]])), inp, i + 1)

\* add_foreign_keys, had line 81 also marked the entity that owns the key.
add_foreign_keys_and_owner(d, fks, entity_name) ==
    IF fks = {} THEN d
    ELSE SetUpdate(SetUpdate(d, (CHOOSE p \in fks : TRUE)[2], {"id"}),
                   entity_name, {"id"})

RECURSIVE add_foreign_keys(_, _, _)
\* lines 78-81, over the foreign_keys items of the popped variable
add_foreign_keys(d, fks, entity_name) ==
    IF fks = {} THEN d
    ELSE LET fk == CHOOSE p \in fks : TRUE
             d1 == IF fk[1] \in d.val[entity_name]
                   THEN SetUpdate(d, fk[2], {"id"})
                   ELSE d
         IN add_foreign_keys(d1, fks \ {fk}, entity_name)

\* The entities line 81 adds "id" to.
fk_targets(d, fks, entity_name) ==
    {fk[2] : fk \in {p \in fks : p[1] \in d.val[entity_name]}}

(***************************************************************************)
(* Inputs                                                                  *)
(***************************************************************************)
EntityA == Entity("e1", "A")
EntityB == Entity("e2", "B")

NoForeignKey == {}
ForeignKeyTo(e) == {<<"entity", e>>}
\* A truthy descriptor without the 'entity' key.
MalformedForeignKey == {<<"table", "A">>}

PlainVariable(name, deps) ==
    Variable(name, name, "e1", deps = <<>>, IF deps = <<>> THEN "none" ELSE "f",
             Metadata(deps, NoForeignKey))
ForeignKeyVariable(name, fk) ==
    Variable(name, name, "e1", TRUE, "none", Metadata(<<>>, fk))

\* The variables a project may declare under each name: "id" is plain, is
\* derived from one name or is itself a foreign key; "fk" is a foreign key
\* (to its own entity, to the other one, or malformed); "x" is plain or
\* derived from "id".  "y" is a name no project declares.
IdChoices ==
    {PlainVariable("id", deps) : deps \in {<<>>, <<"y">>, <<"x">>}}
        \cup {ForeignKeyVariable("id", ForeignKeyTo("A"))}
FkChoices == {ForeignKeyVariable("fk", ForeignKeyTo(e)) : e \in EntityNames}
MalformedChoices == {ForeignKeyVariable("fk", MalformedForeignKey)}
XChoices == {PlainVariable("x", deps) : deps \in {<<>>, <<"id">>}}

\* requested_outputs: every ordered dict over the entity names whose lists
\* hold at most MaxRequested names.
RequestedLists ==
    {ListOf(S, 1) : S \in {T \in SUBSET VarNames : Cardinality(T) <= MaxRequested}}
KeyLists == {<<>>, <<"A">>, <<"B">>, <<"A", "B">>, <<"B", "A">>}
RequestedWithKeys(ks) ==
    {[keys |-> ks, val |-> f] :
        f \in {g \in [EntityNames -> RequestedLists] :
                  \A e \in EntityNames : e \notin Range(ks) => g[e] = <<>>}}
RequestedChoices == UNION {RequestedWithKeys(ks) : ks \in KeyLists}

NoInputs == [keys |-> <<>>, val |-> NoSets]
ProvidedChoices ==
    {NoInputs,
     [keys |-> <<"A">>, val |-> [NoSets EXCEPT !["A"] = {<<"id", "123">>}]],
     [keys |-> <<"B">>, val |-> [NoSets EXCEPT !["B"] = {<<"fk", "123">>}]]}

NoOutputs == [keys |-> <<>>, val |-> [e \in EntityNames |-> <<>>]]
\* Engine.execute has not been called.
NotStarted == [pc |-> "idle"]
NoThreads == <<>>
\* QueryHelper.__init__ (line 43): self._db_pool = {}
DatabaseNames == {"variables_engine", "analytics"}
NoPools == [keys |-> <<>>, val |-> [d \in DatabaseNames |-> 0]]

EmptyRequired == [keys |-> <<>>, val |-> NoSets]
NoQuery == [ctes |-> <<>>, union |-> <<>>]

InitCall(c, projects, provided) ==
    /\ call = c
    /\ project \in projects
    /\ requested_outputs \in RequestedChoices
    /\ provided_inputs \in provided
    /\ pc = "start"
    /\ required_vars = EmptyRequired
    /\ snapshot = <<>>
    /\ idx = 0
    /\ to_process = {}
    /\ pop_count = [e \in EntityNames |-> [n \in Names |-> 0]]
    /\ fk_added = {}
    /\ query = NoQuery
    /\ fetch_count = 0
    /\ store_raised = FALSE
    /\ query_results = <<>>
    /\ results = {}
    /\ function_registry = {}
    /\ inputs = NoSets
    /\ outputs = NoOutputs
    /\ execution = NotStarted
    /\ threads = NoThreads
    /\ thread_locals = NoThreads
    /\ db_pool = NoPools
    /\ pools = <<>>
    /\ coroutines = NoThreads

(***************************************************************************)
(* get_required_variables                                                  *)
(***************************************************************************)
\* lines 53-62: build the graph (which may raise) and seed the required sets.
seed ==
    /\ UNCHANGED <<engine_vars, helper_vars>>
    /\ pc = "start"
    /\ IF build_dependency_graph_raises(project)
       THEN /\ pc' = "raised"
            /\ UNCHANGED <<required_vars, snapshot>>
       ELSE LET seeded == seed_provided(
                              seed_requested(EmptyRequired, requested_outputs, 1),
                              provided_inputs, 1)
            IN /\ required_vars' = seeded
               /\ snapshot' = seeded.keys
               /\ pc' = "entities"
    /\ UNCHANGED <<call, project, requested_outputs, provided_inputs, idx, to_process,
                   pop_count, fk_added, query, fetch_count, store_raised,
                   query_results, results>>

\* lines 65-66 and 83: the next entity of the snapshot, or the return.
next_entity ==
    /\ UNCHANGED <<engine_vars, helper_vars>>
    /\ pc \in {"entities", "worklist"}
    /\ pc = "worklist" => to_process = {}
    /\ IF idx < Len(snapshot)
       THEN /\ idx' = idx + 1
            /\ to_process' = required_vars.val[snapshot[idx + 1]]
            /\ pc' = "worklist"
       ELSE /\ pc' = "resolved"
            /\ UNCHANGED <<idx, to_process>>
    /\ UNCHANGED <<call, project, requested_outputs, provided_inputs, required_vars,
                   snapshot, pop_count, fk_added, query, fetch_count, store_raised,
                   query_results, results>>

\* A worklist that takes every dependency, required already or not.
enqueue_all(work, var_name, deps, required) == (work \ {var_name}) \cup deps

\* The worklist after var_name was popped and its dependencies enqueued
\* (line 74).
enqueue(work, var_name, deps, required) == (work \ {var_name}) \cup (deps \ required)

\* lines 67-81: one iteration of the while loop.
process(var_name) ==
    LET graph == build_dependency_graph(project)
        entity_name == snapshot[idx]
    IN /\ pop_count' = [pop_count EXCEPT ![entity_name][var_name] =
                                               IF @ < 2 THEN @ + 1 ELSE @]
       /\ IF var_name \notin DOMAIN graph
          THEN /\ to_process' = to_process \ {var_name}
               /\ UNCHANGED <<required_vars, fk_added>>
          ELSE LET deps == graph[var_name].dependencies
                   with_deps == SetUpdate(required_vars, entity_name, deps)
               IN /\ to_process' = enqueue(to_process, var_name, deps,
                                           required_vars.val[entity_name])
                  /\ required_vars' = add_foreign_keys(with_deps,
                                          graph[var_name].foreign_keys, entity_name)
                  /\ fk_added' = fk_added \cup
                         fk_targets(with_deps, graph[var_name].foreign_keys, entity_name)

pop ==
    /\ UNCHANGED <<engine_vars, helper_vars>>
    /\ pc = "worklist"
    /\ \E var_name \in to_process : process(var_name)
    /\ UNCHANGED <<call, project, requested_outputs, provided_inputs, pc, snapshot, idx,
                   query, fetch_count, store_raised, query_results, results>>

\* Projects that declare "id" twice, for the first and for the second
\* entity, as the sample project of the tests does.
DuplicateIdProjects ==
    {Project(<<EntityA, EntityB>>,
             <<ForeignKeyVariable("id", ForeignKeyTo("A")),
               ForeignKeyVariable("fk", ForeignKeyTo("B")), PlainVariable("x", <<"id">>),
               Variable("id2", "id", "e2", deps = <<>>, IF deps = <<>> THEN "none" ELSE "f",
                        Metadata(deps, NoForeignKey))>>) :
        deps \in {<<>>, <<"y">>}}

ResolverProjects ==
    {Project(<<EntityA, EntityB>>, <<vid, vfk, vx>>) :
        vid \in IdChoices, vfk \in FkChoices \cup MalformedChoices, vx \in XChoices}
        \cup DuplicateIdProjects

InitResolver == InitCall("get_required_variables", ResolverProjects, ProvidedChoices)
NextResolver == seed \/ next_entity \/ pop
SpecResolver == InitResolver /\ [][NextResolver]_vars

(***************************************************************************)
(* _build_optimal_query                                                    *)
(***************************************************************************)
\* str.lower() on the entity names of the model.
lower(entity_name) ==
    CASE entity_name = "A" -> "a"
      [] entity_name = "B" -> "b"
      [] OTHER -> entity_name

\* f"{entity_name.lower()}_data"
cte_name(entity_name) == <<lower(entity_name), "_data">>

\* The None of line 139, as a value comparable with an Entity.
NoEntity == Entity("None", "None")

\* line 139: the first entity of the project with that name, or None.
find_entity(proj, entity_name) ==
    IF \E i \in 1..Len(proj.entities) : proj.entities[i].name = entity_name
    THEN proj.entities[CHOOSE i \in 1..Len(proj.entities) :
                           /\ proj.entities[i].name = entity_name
                           /\ \A j \in 1..(i - 1) : proj.entities[j].name # entity_name]
    ELSE NoEntity

\* line 140: "if not entity: continue"
skip_entity(proj, entity_name) == find_entity(proj, entity_name) = NoEntity

RECURSIVE entity_ctes(_, _, _)
\* lines 138-156: one CTE per entity of required_vars found in the project.
entity_ctes(proj, required, i) ==
    IF i > Len(required.keys) THEN <<>>
    ELSE LET entity_name == required.keys[i]
         IN IF skip_entity(proj, entity_name)
            THEN entity_ctes(proj, required, i + 1)
            ELSE <<[cte_name |-> cte_name(entity_name),
                    entity_name |-> entity_name,
                    entity_id |-> find_entity(proj, entity_name).id,
                    var_names |-> required.val[entity_name]]>>
                 \o entity_ctes(proj, required, i + 1)

\* lines 167-170: the CTE names the UNION ALL selects from.
union_all(required) == [i \in 1..Len(required.keys) |-> cte_name(required.keys[i])]

\* The compiled query: the CTEs of the WITH clause and the selects of the union.
build_optimal_query(proj, required, input_filters) ==
    [ctes |-> entity_ctes(proj, required, 1), union |-> union_all(required)]

(***************************************************************************)
(* pull_data                                                               *)
(***************************************************************************)
\* The persisted variable-value store: one value per instance.
StoredValue(instance_id) == IF instance_id = "i1" THEN 10 ELSE 20
StoreRows ==
    {[entity_name |-> e, entity_instance_id |-> i, variable_name |-> n,
      value |-> StoredValue(i)] : e \in EntityNames, i \in InstanceIds, n \in {"id", "x"}}

RECURSIVE RowLists(_)
RowLists(n) ==
    IF n = 0 THEN {<<>>}
    ELSE RowLists(n - 1) \cup
         {Append(l, r) : l \in {m \in RowLists(n - 1) : Len(m) = n - 1}, r \in StoreRows}

\* keep_row without the filter of line 119.
keep_every_row(var_name, required_set) == TRUE

\* line 119: the filter on a row.
keep_row(var_name, required_set) == var_name \in required_set

\* line 120: results[entity_name][var_name] = value.  The nested dict is the
\* set of its <<entity, variable, value>> entries.
assign(res, entity_name, var_name, value) ==
    {t \in res : ~(t[1] = entity_name /\ t[2] = var_name)}
        \cup {<<entity_name, var_name, value>>}

\* lines 124-126: the except branch returns the empty mapping.
on_exception(partial) == {}

RECURSIVE reshape(_, _, _, _)
\* lines 115-122; required_vars is a plain dict here, so a row of an entity
\* it has no key for raises KeyError, which line 124 catches.
reshape(rows, i, required, res) ==
    IF i > Len(rows) THEN res
    ELSE LET row == rows[i]
         IN IF ~HasKey(required, row.entity_name)
            THEN on_exception(res)
            ELSE IF keep_row(row.variable_name, required.val[row.entity_name])
                 THEN reshape(rows, i + 1, required,
                              assign(res, row.entity_name, row.variable_name, row.value))
                 ELSE reshape(rows, i + 1, required, res)

\* line 98
build_query ==
    /\ UNCHANGED <<engine_vars, helper_vars>>
    /\ pc = "resolved"
    /\ call = "pull_data"
    /\ query' = build_optimal_query(project, required_vars, provided_inputs)
    /\ pc' = "fetch"
    /\ UNCHANGED <<call, project, requested_outputs, provided_inputs, required_vars,
                   snapshot, idx, to_process, pop_count, fk_added, fetch_count,
                   store_raised, query_results, results>>

\* lines 102-122: the store answers with rows and they are reshaped.
fetch_returns ==
    /\ UNCHANGED <<engine_vars, helper_vars>>
    /\ pc = "fetch"
    /\ \E rows \in RowLists(MaxRows) :
          /\ query_results' = rows
          /\ results' = reshape(rows, 1, required_vars, {})
    /\ fetch_count' = fetch_count + 1
    /\ pc' = "returned"
    /\ UNCHANGED <<call, project, requested_outputs, provided_inputs, required_vars,
                   snapshot, idx, to_process, pop_count, fk_added, query, store_raised>>

\* fetch_raises without the try/except around the store call.
fetch_raises_uncaught ==
    /\ UNCHANGED <<engine_vars, helper_vars>>
    /\ pc = "fetch"
    /\ fetch_count' = fetch_count + 1
    /\ store_raised' = TRUE
    /\ pc' = "raised"
    /\ UNCHANGED <<call, project, requested_outputs, provided_inputs, required_vars,
                   snapshot, idx, to_process, pop_count, fk_added, query, query_results,
                   results>>

\* lines 102, 124-126: the store call raises.
fetch_raises ==
    /\ UNCHANGED <<engine_vars, helper_vars>>
    /\ pc = "fetch"
    /\ fetch_count' = fetch_count + 1
    /\ store_raised' = TRUE
    /\ results' = on_exception({})
    /\ pc' = "returned"
    /\ UNCHANGED <<call, project, requested_outputs, provided_inputs, required_vars,
                   snapshot, idx, to_process, pop_count, fk_added, query, query_results>>

PullProjects ==
    {Project(es, <<PlainVariable("id", <<>>), vfk, PlainVariable("x", <<"id">>)>>) :
        es \in {<<EntityA, EntityB>>, <<EntityA>>},
        vfk \in {ForeignKeyVariable("fk", ForeignKeyTo("B"))} \cup MalformedChoices}

InitPull ==
    InitCall("pull_data", PullProjects,
             {d \in ProvidedChoices : \A e \in EntityNames : "fk" \notin DictKeys(d.val[e])})
NextPull == seed \/ next_entity \/ pop \/ build_query \/ fetch_returns \/ fetch_raises
SpecPull == InitPull /\ [][NextPull]_vars

(***************************************************************************)
(* Properties of get_required_variables (SpecResolver)                     *)
(***************************************************************************)
Graph == build_dependency_graph(project)

\* get_required_variables has returned its mapping.
Resolved == pc = "resolved"
ResultEntities == Range(required_vars.keys)
Result(e) == required_vars.val[e]

\* The names requested or provided for an entity.
Seeds(e) == Range(requested_outputs.val[e]) \cup DictKeys(provided_inputs.val[e])
SeededEntities == Range(requested_outputs.keys) \cup Range(provided_inputs.keys)

RECURSIVE Reachable(_)
\* The names reachable from S along the dependencies of the graph, S included.
Reachable(S) ==
    LET more == S \cup UNION {Graph[n].dependencies : n \in S \cap DOMAIN Graph}
    IN IF more = S THEN S ELSE Reachable(more)

\* C1: closure completeness: the required set of every entity of the result
\* holds every name reachable through input_variables from the names
\* requested or provided for it, whatever the order of the pops.
C1_ClosureCompleteness ==
    Resolved => \A e \in ResultEntities : Reachable(Seeds(e)) \subseteq Result(e)

\* C2: foreign-key expansion: whenever a foreign key referencing entity b is
\* in the required set of an entity of the result, "id" is in b's required
\* set, also for entities that foreign-key expansion added.
C2_ForeignKeyExpansion ==
    Resolved =>
        \A a \in ResultEntities : \A v \in Result(a) \cap DOMAIN Graph :
            \A fk \in Graph[v].foreign_keys :
                fk[2] \in ResultEntities /\ "id" \in Result(fk[2])

\* C3: the result is closed under direct dependencies for every entity in
\* it, the ones touched only by foreign-key expansion included.
C3_ClosedUnderDependencies ==
    Resolved =>
        \A e \in ResultEntities : \A v \in Result(e) \cap DOMAIN Graph :
            Graph[v].dependencies \subseteq Result(e)

\* "id", for an entity that some processed foreign key references.
IdByForeignKey(e) == IF e \in fk_added THEN {"id"} ELSE {}

Returned == pc = "returned"
Rows == Range(query_results)
RowPasses(row) ==
    HasKey(required_vars, row.entity_name)
        /\ row.variable_name \in Result(row.entity_name)

\* C5: pull_data never raises to its caller.
C5_NeverRaises == pc # "raised"

\* C6: when the store call raises, pull_data returns the empty mapping and
\* no exception surfaces.
C6_StoreErrorGivesEmpty == store_raised => (Returned /\ results = {})

C6_Witness ==
    /\ store_raised
    /\ Returned
    /\ \E e \in ResultEntities : Result(e) # {}

\* C7: every pull_data call performs exactly one fetch: never more than one,
\* and one by the time the call has ended.
C7_ExactlyOneFetch ==
    /\ fetch_count <= 1
    /\ pc \in {"returned", "raised"} => fetch_count = 1

\* C8: every (entity, variable) of the returned mapping has the variable in
\* the required set of that entity, and comes from a returned row.
C8_DefensiveFilter ==
    Returned =>
        \A t \in results :
            /\ t[1] \in ResultEntities
            /\ t[2] \in Result(t[1])
            /\ \E row \in Rows : <<row.entity_name, row.variable_name, row.value>> = t

\* A call that kept one row and dropped another for its variable.
C8_Witness ==
    /\ Returned
    /\ results # {}
    /\ \E row \in Rows :
          HasKey(required_vars, row.entity_name) /\ ~RowPasses(row)

\* The entities of required_vars that the project knows.
KnownEntities == {e \in ResultEntities : ~skip_entity(project, e)}

\* C9: the compiled query defines one sub-query per entity with a non-empty
\* required set, none for an entity whose set is empty, and its union
\* combines exactly the sub-queries it defines.  (Read for the entities the
\* project knows, which are the ones a sub-query can be compiled for.)
C9_BatchedFetchShape ==
    pc \in {"fetch", "returned"} =>
        /\ \A e \in KnownEntities :
              Cardinality({i \in 1..Len(query.ctes) : query.ctes[i].entity_name = e})
                  = IF Result(e) # {} THEN 1 ELSE 0
        /\ query.union = [i \in 1..Len(query.ctes) |-> query.ctes[i].cte_name]

\* C10: values are keyed by entity, instance and variable: of two kept rows
\* of one entity and variable with different instance ids, both values are
\* in the result.  (Read for calls in which no row made the reshaping fail.)
C10_KeyedByInstance ==
    (Returned /\ ~store_raised /\ \A row \in Rows : HasKey(required_vars, row.entity_name)) =>
        \A r1 \in Rows : \A r2 \in Rows :
            (/\ r1.entity_name = r2.entity_name
             /\ r1.variable_name = r2.variable_name
             /\ r1.entity_instance_id # r2.entity_instance_id
             /\ RowPasses(r1))
            => /\ <<r1.entity_name, r1.variable_name, r1.value>> \in results
               /\ <<r2.entity_name, r2.variable_name, r2.value>> \in results

(***************************************************************************)
(* Evaluation engine: engine.py                                            *)
(* Engine.execute is synchronous; it and _calculate_variable are modelled  *)
(* as operators that thread the locals of the call: the calculated-value   *)
(* cache, and, as history, the function invocations, the values every      *)
(* resolution returned and the cache hits.                                 *)
(***************************************************************************)
\* The interpreter's bound on nested calls (RecursionError beyond it).
RecursionLimit == 5

\* Python values: None and the integers.
None == <<>>
Some(v) == <<v>>

\* A function of the registry applied to its keyword arguments (the list of
\* <<name, value>> in the order of input_variables): [raised, value].
\*   add_one: lambda **kwargs: first value + 1, None for None
\*            (test_engine.py line 206); IndexError without arguments.
\*   boom:    a function that always raises (test_engine.py line 180).
apply_function(kind, kwargs) ==
    CASE kind = "add_one" ->
            IF kwargs = <<>> THEN [raised |-> TRUE, value |-> None]
            ELSE IF kwargs[1][2] = None THEN [raised |-> FALSE, value |-> None]
            ELSE [raised |-> FALSE, value |-> Some(kwargs[1][2][1] + 1)]
      [] OTHER -> [raised |-> TRUE, value |-> None]

\* line 35: {v.name: v for v in project.variables}; the last of a name wins.
variable_lookup(proj) ==
    LET vs == proj.variables
    IN [n \in {vs[i].name : i \in 1..Len(vs)} |->
           vs[CHOOSE i \in 1..Len(vs) :
                  vs[i].name = n /\ \A j \in (i + 1)..Len(vs) : vs[j].name # n]]

\* line 36: {e.name: e for e in project.entities}
entity_lookup(proj) ==
    LET es == proj.entities
    IN [n \in {es[i].name : i \in 1..Len(es)} |->
           es[CHOOSE i \in 1..Len(es) :
                  es[i].name = n /\ \A j \in (i + 1)..Len(es) : es[j].name # n]]

\* The locals of one execute call.  calculated_values is the cache of line
\* 39; the other fields are history: invoked lists the variables whose
\* function was called, resolved the <<name, value>> every resolution
\* returned (resolved_for: with the entity of the running loop), hits the
\* <<name, reading entity, caching entity>> of every cache hit, cached_for the entity a name was cached for, current the
\* entity of the running loop, failed the variables whose function raised,
\* raised an exception leaving execute.
NewLocals ==
    [calculated_values |-> {}, invoked |-> <<>>, resolved |-> {}, resolved_for |-> {},
     hits |-> {}, cached_for |-> {}, current |-> "", failed |-> {}, raised |-> FALSE]

\* lines 105 and 143: calculated_values[variable.name] = value
cache_value(st, name, value) ==
    [st EXCEPT !.calculated_values = {p \in @ : p[1] # name} \cup {<<name, value>>},
               !.cached_for = {p \in @ : p[1] # name} \cup {<<name, st.current>>}]

\* What a resolution returns, with its entry in the history.
returning(st, name, value) ==
    [value |-> value,
     st |-> [st EXCEPT !.resolved = @ \cup {<<name, value>>},
                       !.resolved_for = @ \cup {<<name, st.current, value>>}]]

\* The function call without the try of line 141: the exception leaves
\* execute.
call_function_uncaught(st, variable, kind, kwargs) ==
    LET r == apply_function(kind, kwargs)
        st1 == [st EXCEPT !.invoked = Append(@, variable.name)]
    IN IF r.raised
       THEN [value |-> None,
             st |-> [st1 EXCEPT !.failed = @ \cup {variable.name}, !.raised = TRUE]]
       ELSE returning(cache_value(st1, variable.name, r.value), variable.name, r.value)

\* lines 141-147: the function call and its except branch.
call_function(st, variable, kind, kwargs) ==
    LET r == apply_function(kind, kwargs)
        st1 == [st EXCEPT !.invoked = Append(@, variable.name)]
    IN IF r.raised
       THEN returning([st1 EXCEPT !.failed = @ \cup {variable.name}], variable.name, None)
       ELSE returning(cache_value(st1, variable.name, r.value), variable.name, r.value)

RECURSIVE calculate_variable(_, _, _, _, _, _)
RECURSIVE resolve_inputs(_, _, _, _, _, _, _, _)

\* lines 124-138: the loop over variable.input_variables.  aborted: a name
\* that is not in variable_lookup (line 126-128).
resolve_inputs(names, i, entity_inputs, lookup, registry, st, kwargs, depth) ==
    IF i > Len(names) THEN [aborted |-> FALSE, kwargs |-> kwargs, st |-> st]
    ELSE IF names[i] \notin DOMAIN lookup
         THEN [aborted |-> TRUE, kwargs |-> kwargs, st |-> st]
         ELSE LET r == calculate_variable(lookup[names[i]], entity_inputs, lookup,
                                          registry, st, depth + 1)
              IN IF r.st.raised
                 THEN [aborted |-> TRUE, kwargs |-> kwargs, st |-> r.st]
                 ELSE resolve_inputs(names, i + 1, entity_inputs, lookup, registry, r.st,
                                     Append(kwargs, <<names[i], r.value>>), depth)

\* lines 78-147: _calculate_variable, at nesting depth `depth`.
calculate_variable(variable, entity_inputs, lookup, registry, st, depth) ==
    IF depth > RecursionLimit
    THEN [value |-> None, st |-> [st EXCEPT !.raised = TRUE]]
    ELSE IF variable.name \in DictKeys(st.calculated_values)
    THEN returning(
             [st EXCEPT !.hits = @ \cup {<<variable.name, st.current,
                                          DictGet(st.cached_for, variable.name)>>}],
             variable.name, DictGet(st.calculated_values, variable.name))
    ELSE IF variable.is_input
    THEN IF variable.name \in DictKeys(entity_inputs)
         THEN returning(cache_value(st, variable.name, DictGet(entity_inputs, variable.name)),
                        variable.name, DictGet(entity_inputs, variable.name))
         ELSE returning(st, variable.name, None)
    ELSE IF variable.function_name = "none"
    THEN returning(st, variable.name, None)
    ELSE IF variable.function_name \notin DictKeys(registry)
    THEN returning(st, variable.name, None)
    ELSE LET r == resolve_inputs(input_variables(variable), 1, entity_inputs, lookup,
                                 registry, st, <<>>, depth)
         IN IF r.st.raised THEN [value |-> None, st |-> r.st]
            ELSE IF r.aborted THEN returning(r.st, variable.name, None)
            ELSE call_function(r.st, variable,
                               DictGet(registry, variable.function_name), r.kwargs)

\* The result mapping: the entities that have an entry, and the
\* <<entity, variable, value>> of the nested dicts.
NoResults == [entities |-> {}, entries |-> {}]

\* An ownership test that lets every variable through.
owned_by_any(variable, entity) == TRUE

\* line 62: variable.entity_id != entity.id, negated.
owned_by(variable, entity) == variable.entity_id = entity.id

\* An unknown requested name recorded with None.
unknown_variable_as_none(res, entity_name, var_name) ==
    [res EXCEPT !.entries = assign(@, entity_name, var_name, None)]

\* lines 55-57: an unknown requested name is logged and left out.
unknown_variable(res, entity_name, var_name) == res

\* The entity's mapping created only when a value is recorded.
new_entity_results_lazy(res, entity_name) == res

\* line 48: results[entity_name] = {}
new_entity_results(res, entity_name) == [res EXCEPT !.entities = @ \cup {entity_name}]

\* A value recorded only when it is not None.
record_value_unless_none(res, entity_name, var_name, value) ==
    IF value = None THEN res
    ELSE [res EXCEPT !.entries = assign(@, entity_name, var_name, value)]

\* line 74: results[entity_name][var_name] = value
record_value(res, entity_name, var_name, value) ==
    [res EXCEPT !.entries = assign(@, entity_name, var_name, value)]

RECURSIVE execute_variables(_, _, _, _, _, _, _, _)
\* lines 54-74: the loop over the requested names of one entity.
execute_variables(proj, entity_name, names, j, entity_inputs, registry, res, st) ==
    IF j > Len(names) \/ st.raised THEN [results |-> res, st |-> st]
    ELSE LET lookup == variable_lookup(proj)
             entity == entity_lookup(proj)[entity_name]
             var_name == names[j]
         IN IF var_name \notin DOMAIN lookup
            THEN execute_variables(proj, entity_name, names, j + 1, entity_inputs,
                                   registry, unknown_variable(res, entity_name, var_name),
                                   st)
            ELSE IF ~owned_by(lookup[var_name], entity)
            THEN execute_variables(proj, entity_name, names, j + 1, entity_inputs,
                                   registry, res, st)
            ELSE LET r == calculate_variable(lookup[var_name], entity_inputs, lookup,
                                             registry, st, 1)
                 IN IF r.st.raised THEN [results |-> res, st |-> r.st]
                    ELSE execute_variables(
                             proj, entity_name, names, j + 1, entity_inputs, registry,
                             record_value(res, entity_name, var_name, r.value),
                             r.st)

RECURSIVE execute_entities(_, _, _, _, _, _, _)
\* lines 42-74: the loop over outputs.items().
execute_entities(proj, inp, outs, i, registry, res, st) ==
    IF i > Len(outs.keys) \/ st.raised THEN [results |-> res, st |-> st]
    ELSE LET entity_name == outs.keys[i]
         IN IF entity_name \notin DOMAIN entity_lookup(proj)
            THEN execute_entities(proj, inp, outs, i + 1, registry, res, st)
            ELSE LET r == execute_variables(
                              proj, entity_name, outs.val[entity_name], 1,
                              inp[entity_name], registry,
                              new_entity_results(res, entity_name),
                              [st EXCEPT !.current = entity_name])
                 IN execute_entities(proj, inp, outs, i + 1, registry, r.results, r.st)

\* lines 14-76: Engine.execute.  pc is "returned" with the result mapping,
\* or "raised" when an exception left the call.
execute(proj, inp, outs, registry) ==
    LET r == execute_entities(proj, inp, outs, 1, registry, NoResults, NewLocals)
    IN [pc |-> IF r.st.raised THEN "raised" ELSE "returned",
        results |-> r.results,
        locals |-> r.st]

(***************************************************************************)
(* Inputs of the engine                                                    *)
(***************************************************************************)
\* Variable(**kwargs): the model declares no input_variables field, so a
\* keyword argument of that name is not stored (variable.py lines 5-17);
\* the property reads metadata.
declare(kwargs) ==
    Variable(kwargs.id, kwargs.name, kwargs.entity_id, kwargs.is_input,
             kwargs.function_name, kwargs.metadata)

\* The two ways the tests declare dependencies: under metadata
\* (test_data_puller.py line 47) or as a keyword argument
\* (test_engine.py line 41).
DeclaredByMetadata(name, entity_id, is_input, function_name, deps) ==
    declare([id |-> name, name |-> name, entity_id |-> entity_id, is_input |-> is_input,
             function_name |-> function_name, input_variables |-> <<>>,
             metadata |-> Metadata(deps, NoForeignKey)])
DeclaredByField(name, entity_id, is_input, function_name, deps) ==
    declare([id |-> name, name |-> name, entity_id |-> entity_id, is_input |-> is_input,
             function_name |-> function_name, input_variables |-> deps,
             metadata |-> Metadata(<<>>, NoForeignKey)])

\* Projects with an input "in" of entity A, a derived "d1" of either entity
\* (without function, with add_one or with g; from "in", from "d2" or from
\* the unknown name "zz") and a derived "d2" of entity A (from "d1" or "in").
EngineProjects ==
    {Project(es, <<DeclaredByMetadata("in", "e1", TRUE, "none", <<>>),
                   DeclaredByMetadata("d1", owner, FALSE, fn, deps1),
                   DeclaredByMetadata("d2", "e1", FALSE, "add_one", deps2)>>) :
        es \in {<<EntityA, EntityB>>, <<EntityA>>},
        owner \in {"e1", "e2"},
        fn \in {"none", "add_one", "g"},
        deps1 \in {<<"in">>, <<"d2">>, <<"zz">>},
        deps2 \in {<<"d1">>, <<"in">>}}

\* The registry always has add_one; g is absent, raises, or is add_one too.
AddOneOnly == {<<"add_one", "add_one">>}
RegistryChoices ==
    {AddOneOnly, AddOneOnly \cup {<<"g", "boom">>}, AddOneOnly \cup {<<"g", "add_one">>}}

\* inputs: "in" given or not for each entity.
InputChoices ==
    {[e \in EntityNames |-> IF e \in given THEN {<<"in", Some(IF e = "A" THEN 1 ELSE 5)>>}
                            ELSE {}] : given \in SUBSET EntityNames}

\* outputs: a list of at most MaxOutputs names for A, and possibly ["d1"]
\* for B, before or after A.
RECURSIVE OutputLists(_)
OutputLists(n) ==
    IF n = 0 THEN {<<>>}
    ELSE OutputLists(n - 1) \cup
         {Append(l, x) : l \in {m \in OutputLists(n - 1) : Len(m) = n - 1},
                         x \in {"d1", "d2", "zz"}}
OutputsWith(ks, l) ==
    [keys |-> ks, val |-> [e \in EntityNames |-> IF e = "A" THEN l ELSE
                                                 IF e \in Range(ks) THEN <<"d1">> ELSE <<>>]]
OutputChoices ==
    {OutputsWith(ks, l) : ks \in {<<"A">>, <<"A", "B">>, <<"B", "A">>},
                          l \in {m \in OutputLists(MaxOutputs) :
                                    \A i, j \in 1..Len(m) : i # j => m[i] # m[j]}}

\* test_dependency_chain: input1 -> level1 -> ... -> levelN, each add_one of
\* the level below, declared in either way.
LevelNames == <<"input1", "level1", "level2", "level3", "level4">>
ChainVariable(k, byField) ==
    IF k = 1 THEN DeclaredByMetadata(LevelNames[1], "e1", TRUE, "none", <<>>)
    ELSE IF byField
         THEN DeclaredByField(LevelNames[k], "e1", FALSE, "add_one", <<LevelNames[k - 1]>>)
         ELSE DeclaredByMetadata(LevelNames[k], "e1", FALSE, "add_one", <<LevelNames[k - 1]>>)
ChainProject(n, byField) ==
    Project(<<EntityA>>, [k \in 1..(n + 1) |-> ChainVariable(k, byField)])
ChainInputs(x) == [e \in EntityNames |-> IF e = "A" THEN {<<"input1", Some(x)>>} ELSE {}]
ChainOutputs(n) ==
    [keys |-> <<"A">>, val |-> [e \in EntityNames |-> IF e = "A" THEN <<LevelNames[n + 1]>>
                                                      ELSE <<>>]]

InitEngineInputs ==
    \/ /\ project \in EngineProjects
       /\ function_registry \in RegistryChoices
       /\ inputs \in InputChoices
       /\ outputs \in OutputChoices
    \/ \E n \in 1..MaxChain : \E byField \in BOOLEAN : \E x \in {1, 2} :
          /\ project = ChainProject(n, byField)
          /\ function_registry = AddOneOnly
          /\ inputs = ChainInputs(x)
          /\ outputs = ChainOutputs(n)

InitEngine ==
    /\ call = "execute"
    /\ InitEngineInputs
    /\ requested_outputs = NoOutputs
    /\ provided_inputs = NoInputs
    /\ pc = "idle"
    /\ required_vars = EmptyRequired
    /\ snapshot = <<>>
    /\ idx = 0
    /\ to_process = {}
    /\ pop_count = [e \in EntityNames |-> [n \in Names |-> 0]]
    /\ fk_added = {}
    /\ query = NoQuery
    /\ fetch_count = 0
    /\ store_raised = FALSE
    /\ query_results = <<>>
    /\ results = {}
    /\ execution = NotStarted
    /\ threads = NoThreads
    /\ thread_locals = NoThreads
    /\ db_pool = NoPools
    /\ pools = <<>>
    /\ coroutines = NoThreads

\* One call of Engine.execute, from entry to return or raise.
execute_call ==
    /\ call = "execute"
    /\ execution.pc = "idle"
    /\ execution' = execute(project, inputs, outputs, function_registry)
    /\ UNCHANGED <<puller_vars, helper_vars, function_registry, inputs, outputs, threads,
                   thread_locals>>

NextEngine == execute_call
SpecEngine == InitEngine /\ [][NextEngine]_vars

(***************************************************************************)
(* Properties of Engine.execute                                            *)
(***************************************************************************)
Executed == execution.pc = "returned"
EngineResults == execution.results
EngineLocals == execution.locals
\* results[e] has the key n / the value of results[e][n].
HasResult(e, n) == \E t \in EngineResults.entries : t[1] = e /\ t[2] = n
ResultValue(e, n) == (CHOOSE t \in EngineResults.entries : t[1] = e /\ t[2] = n)[3]
RequestedEntities == Range(outputs.keys)
RequestedNames(e) == Range(outputs.val[e])
ProjectEntityNames == DOMAIN entity_lookup(project)
ProjectVariableNames == DOMAIN variable_lookup(project)

\* C11: Engine.execute never raises to its caller, whatever the project,
\* inputs and outputs are, cyclic input_variables included: every call
\* returns a result mapping.
C11_NeverRaises == execution.pc # "raised"

\* C12: idempotent memoization: within one call every resolution of a
\* variable name returns the same value, and the function of a derived
\* variable is invoked at most once, also when it raised the first time.
C12_IdempotentMemoization ==
    Executed =>
        /\ \A p, q \in EngineLocals.resolved : p[1] = q[1] => p[2] = q[2]
        /\ \A i, j \in 1..Len(EngineLocals.invoked) :
              i # j => EngineLocals.invoked[i] # EngineLocals.invoked[j]

\* The names n depends on through input_variables, n included.
RECURSIVE DependencyClosure(_)
DependencyClosure(S) ==
    LET lookup == variable_lookup(project)
        T == S \cup UNION {Range(input_variables(lookup[n])) : n \in S \cap DOMAIN lookup}
    IN IF T = S THEN S ELSE DependencyClosure(T)
\* The registry in which the raising function returns instead.
NotRaising(registry) ==
    {IF p[2] = "boom" THEN <<p[1], "add_one">> ELSE p : p \in registry}
WithoutRaise == execute(project, inputs, outputs, NotRaising(function_registry))
DependsOnFailed(n) == DependencyClosure({n}) \cap EngineLocals.failed # {}

\* C13: fail-soft: when the function of a derived variable raises, execute
\* still returns, the variable's result is None, and every requested
\* variable that does not depend on it has the result it has when the
\* function returns instead of raising.
C13_FailSoft ==
    (execution.pc # "idle" /\ EngineLocals.failed # {}) =>
        /\ Executed
        /\ \A e \in EntityNames : \A n \in EngineLocals.failed :
              HasResult(e, n) => ResultValue(e, n) = None
        /\ \A e \in EntityNames : \A n \in RequestedNames(e) :
              ~DependsOnFailed(n) =>
                 {t \in EngineResults.entries : t[1] = e /\ t[2] = n}
                    = {t \in WithoutRaise.results.entries : t[1] = e /\ t[2] = n}
\* A call in which a requested variable's function raised and a requested
\* sibling that does not depend on it has a value.
C13_Witness ==
    /\ Executed
    /\ \E e \in EntityNames : \E n, m \in RequestedNames(e) :
          /\ n \in EngineLocals.failed /\ HasResult(e, n)
          /\ ~DependsOnFailed(m) /\ HasResult(e, m) /\ ResultValue(e, m) # None

\* The requested <<entity, name>> pairs the project knows both sides of.
KnownRequests ==
    {<<e, n>> \in EntityNames \X ProjectVariableNames :
        e \in RequestedEntities \cap ProjectEntityNames /\ n \in RequestedNames(e)}
Owns(e, n) == variable_lookup(project)[n].entity_id = entity_lookup(project)[e].id

\* C14: ownership guard: results[E] has no key for a requested variable
\* whose entity_id is not the id of E; the request is skipped and results[E]
\* is still there.
C14_OwnershipGuard ==
    Executed =>
        \A r \in KnownRequests :
            ~Owns(r[1], r[2]) => ~HasResult(r[1], r[2]) /\ r[1] \in EngineResults.entities
\* A call that requested, for one entity, a variable of another entity and
\* a variable of its own, which has a value.
C14_Witness ==
    /\ Executed
    /\ \E r, q \in KnownRequests :
          /\ r[1] = q[1]
          /\ ~Owns(r[1], r[2])
          /\ Owns(q[1], q[2]) /\ HasResult(q[1], q[2]) /\ ResultValue(q[1], q[2]) # None

\* outputs without the entity names the project does not have.
IsProjectEntity(e) == e \in ProjectEntityNames
KnownOutputs == [keys |-> SelectSeq(outputs.keys, IsProjectEntity), val |-> outputs.val]
WithoutUnknownEntities == execute(project, inputs, KnownOutputs, function_registry)

\* C15: an entity name of outputs that the project does not have is skipped:
\* it has no entry and raises nothing, and the call ends as it does without
\* that name in outputs; every requested entity the project has gets an
\* entry.
C15_UnknownEntitySkipped ==
    execution.pc # "idle" =>
        /\ execution.pc = WithoutUnknownEntities.pc
        /\ Executed =>
              /\ EngineResults = WithoutUnknownEntities.results
              /\ EngineResults.entities = RequestedEntities \cap ProjectEntityNames
              /\ \A t \in EngineResults.entries : t[1] \in ProjectEntityNames
\* A call with an unknown entity before a known one whose variable has a value.
C15_Witness ==
    /\ Executed
    /\ \E i, j \in 1..Len(outputs.keys) :
          /\ i < j
          /\ outputs.keys[i] \notin ProjectEntityNames
          /\ outputs.val[outputs.keys[i]] # <<>>
          /\ \E n \in Names \cup {"d1", "d2"} :
                HasResult(outputs.keys[j], n) /\ ResultValue(outputs.keys[j], n) # None

\* C16: a requested name that is no variable of the project adds no key,
\* raises nothing and does not stop the rest of the entity's list; the
\* entity's entry is there.
C16_UnknownVariableSkipped ==
    Executed =>
        \A e \in RequestedEntities \cap ProjectEntityNames :
            /\ e \in EngineResults.entities
            /\ \A n \in RequestedNames(e) \ ProjectVariableNames : ~HasResult(e, n)
            /\ \A r \in KnownRequests : r[1] = e /\ Owns(e, r[2]) => HasResult(e, r[2])
\* A call with an unknown name before a known one, which has a value.
C16_Witness ==
    /\ Executed
    /\ \E e \in RequestedEntities \cap ProjectEntityNames :
          \E i, j \in 1..Len(outputs.val[e]) :
             /\ i < j
             /\ outputs.val[e][i] \notin ProjectVariableNames
             /\ HasResult(e, outputs.val[e][j]) /\ ResultValue(e, outputs.val[e][j]) # None

\* The input variables n depends on that entity e was given no value for.
MissingInputs(e, n) ==
    {m \in DependencyClosure({n}) \cap ProjectVariableNames :
        variable_lookup(project)[m].is_input /\ m \notin DictKeys(inputs[e])}
\* The call with a value for every missing input of entity e.
WithAllInputs(e) ==
    execute(project,
            [inputs EXCEPT ![e] = @ \cup {<<m, Some(1)>> : m \in
                {k \in ProjectVariableNames : variable_lookup(project)[k].is_input}
                    \ DictKeys(inputs[e])}],
            outputs, function_registry)

\* C17: a requested derived variable that depends on an input variable
\* absent from its entity's inputs has the result None, and the requested
\* variables of that entity that do not depend on a missing input have the
\* value they have when every input is given.
C17_MissingDependencyGivesNone ==
    Executed =>
        \A r \in KnownRequests :
            (Owns(r[1], r[2]) /\ ~variable_lookup(project)[r[2]].is_input) =>
                IF MissingInputs(r[1], r[2]) # {}
                THEN ResultValue(r[1], r[2]) = None
                ELSE \E t \in WithAllInputs(r[1]).results.entries :
                        t = <<r[1], r[2], ResultValue(r[1], r[2])>>

\* C18: a chain input1 -> level1 -> ... -> levelN of add_one variables,
\* each with the level below as its only input, gives levelN = x + N for
\* input1 = x, however the dependencies were declared.
C18_DependencyChain ==
    \A n \in 1..MaxChain : \A byField \in BOOLEAN : \A x \in {1, 2} :
        (Executed /\ project = ChainProject(n, byField) /\ inputs = ChainInputs(x)) =>
            /\ HasResult("A", LevelNames[n + 1])
            /\ ResultValue("A", LevelNames[n + 1]) = Some(x + n)

\* C20: the cache is not shared across entities within one call: a value
\* cached while the outputs of one entity were resolved is never returned
\* while the outputs of another entity are.
C20_CacheNotSharedAcrossEntities ==
    execution.pc # "idle" =>
        \A h \in EngineLocals.hits : h[2] = h[3]

(***************************************************************************)
(* Concurrent calls of Engine.execute                                      *)
(***************************************************************************)
\* Two threads call execute on one Engine with the same project and
\* registry; each has its own arguments.  A thread's steps are the
\* iterations of the two loops of execute; the resolution of one requested
\* variable is one step.
Threads == {1, 2}

\* One calculated_values for the Engine instead of one per call.
cache_of_engine(t) == 1

\* line 39: calculated_values = {} is a local of the call, so each call
\* frame has its own.
cache_of(t) == t

ConcurrentProjects ==
    {Project(<<EntityA, EntityB>>,
             <<DeclaredByMetadata("in", "e1", TRUE, "none", <<>>),
               DeclaredByMetadata("d1", owner, FALSE, fn, deps1),
               DeclaredByMetadata("d2", "e1", FALSE, "add_one", deps2)>>) :
        owner \in {"e1", "e2"},
        fn \in {"add_one", "g"},
        deps1 \in {<<"in">>, <<"d2">>},
        deps2 \in {<<"d1">>, <<"in">>}}

\* Thread t gives "in" the value 10 * t for B and, or not, 10 * t + 1 for A.
ThreadInputs(t) ==
    {[e \in EntityNames |-> IF e = "B" THEN {<<"in", Some(10 * t)>>}
                            ELSE IF givenA THEN {<<"in", Some(10 * t + 1)>>} ELSE {}] :
        givenA \in BOOLEAN}
ThreadOutputs ==
    {OutputsWith(ks, l) : ks \in {<<"A">>, <<"B", "A">>},
                          l \in {<<"d1">>, <<"d2">>, <<"d1", "d2">>, <<"d2", "d1">>}}

\* A thread at the entry of execute.
NewThread(inp, outs) ==
    [pc |-> "start", inputs |-> inp, outputs |-> outs, i |-> 0, j |-> 0,
     results |-> NoResults]

InitConcurrent ==
    /\ call = "execute"
    /\ project \in ConcurrentProjects
    /\ function_registry = AddOneOnly \cup {<<"g", "boom">>}
    /\ threads \in {[t \in Threads |-> NewThread(f[t][1], f[t][2])] :
                       f \in [Threads -> UNION {ThreadInputs(t) \X ThreadOutputs : t \in Threads}]}
    /\ \A t \in Threads : threads[t].inputs \in ThreadInputs(t)
    /\ thread_locals = [t \in Threads |-> NewLocals]
    /\ db_pool = NoPools
    /\ pools = <<>>
    /\ coroutines = NoThreads
    /\ inputs = NoSets
    /\ outputs = NoOutputs
    /\ execution = NotStarted
    /\ requested_outputs = NoOutputs
    /\ provided_inputs = NoInputs
    /\ pc = "idle"
    /\ required_vars = EmptyRequired
    /\ snapshot = <<>>
    /\ idx = 0
    /\ to_process = {}
    /\ pop_count = [e \in EntityNames |-> [n \in Names |-> 0]]
    /\ fk_added = {}
    /\ query = NoQuery
    /\ fetch_count = 0
    /\ store_raised = FALSE
    /\ query_results = <<>>
    /\ results = {}

\* lines 31-39: the lookups, results = {} and calculated_values = {}.
thread_start(t) ==
    /\ threads[t].pc = "start"
    /\ threads' = [threads EXCEPT ![t].pc = "entity", ![t].i = 1, ![t].results = NoResults]
    /\ thread_locals' = [thread_locals EXCEPT ![cache_of(t)] = NewLocals]
    /\ UNCHANGED <<puller_vars, helper_vars, function_registry, inputs, outputs,
                      execution>>

\* lines 42-51: one iteration of the loop over outputs.items(), up to the
\* loop over the entity's names; line 76 when the loop is over.
thread_entity(t) ==
    LET th == threads[t]
    IN /\ th.pc = "entity"
       /\ threads' =
             IF th.i > Len(th.outputs.keys)
             THEN [threads EXCEPT ![t].pc = "returned"]
             ELSE IF th.outputs.keys[th.i] \notin DOMAIN entity_lookup(project)
             THEN [threads EXCEPT ![t].i = th.i + 1]
             ELSE [threads EXCEPT ![t].pc = "variable", ![t].j = 1,
                                  ![t].results =
                                      new_entity_results(th.results, th.outputs.keys[th.i])]
       /\ UNCHANGED <<puller_vars, helper_vars, function_registry, inputs, outputs,
                      execution, thread_locals>>

\* lines 54-74: one iteration of the loop over the entity's names, with the
\* resolution of the variable.
thread_variable(t) ==
    LET th == threads[t]
        entity_name == th.outputs.keys[th.i]
        names == th.outputs.val[entity_name]
        r == execute_variables(project, entity_name, <<names[th.j]>>, 1,
                               th.inputs[entity_name], function_registry, th.results,
                               [thread_locals[cache_of(t)] EXCEPT !.current = entity_name])
    IN /\ th.pc = "variable"
       /\ IF th.j > Len(names)
          THEN /\ threads' = [threads EXCEPT ![t].pc = "entity", ![t].i = th.i + 1]
               /\ UNCHANGED thread_locals
          ELSE /\ threads' = [threads EXCEPT ![t].pc = IF r.st.raised THEN "raised"
                                                       ELSE "variable",
                                             ![t].j = th.j + 1,
                                             ![t].results = r.results]
               /\ thread_locals' = [thread_locals EXCEPT ![cache_of(t)] = r.st]
       /\ UNCHANGED <<puller_vars, helper_vars, function_registry, inputs, outputs,
                      execution>>

NextConcurrent ==
    \E t \in Threads : thread_start(t) \/ thread_entity(t) \/ thread_variable(t)
SpecConcurrent == InitConcurrent /\ [][NextConcurrent]_vars

\* The result of thread t's call when it runs alone.
Alone(t) == execute(project, threads[t].inputs, threads[t].outputs, function_registry)

\* C19: concurrent execute calls are safe: however two calls on one Engine,
\* project and registry interleave, each ends as it ends when run alone,
\* with the same result mapping.
C19_ConcurrentCallsSafe ==
    \A t \in DOMAIN threads :
        threads[t].pc \in {"returned", "raised"} =>
            /\ threads[t].pc = Alone(t).pc
            /\ threads[t].pc = "returned" => threads[t].results = Alone(t).results
\* A call that returned a value while the other call, with another value
\* cached for the same input, was between two of its variables.
C19_Witness ==
    /\ DOMAIN threads = Threads
    /\ \E t, u \in Threads :
          /\ threads[t].pc = "returned"
          /\ \E x \in threads[t].results.entries : x[3] # None
          /\ threads[u].pc = "variable" /\ threads[u].j = 2
          /\ "in" \in DictKeys(thread_locals[t].calculated_values)
          /\ "in" \in DictKeys(thread_locals[u].calculated_values)
          /\ DictGet(thread_locals[t].calculated_values, "in")
                # DictGet(thread_locals[u].calculated_values, "in")

(***************************************************************************)
(* Properties of the worklist, the graph and the query                     *)
(***************************************************************************)
\* The entity whose worklist is running.
CurrentEntity == snapshot[idx]

\* C21: each name is popped at most once per entity worklist: the worklist
\* holds only names of the entity's required set, and a name that was
\* popped is never in the worklist again.
C21_PoppedAtMostOnce ==
    /\ \A e \in EntityNames : \A n \in Names : pop_count[e][n] <= 1
    /\ pc = "worklist" =>
          /\ to_process \subseteq Result(CurrentEntity)
          /\ \A n \in to_process : pop_count[CurrentEntity][n] = 0
\* A call that popped, for one entity, a name and then a dependency of it
\* that was requested too (so it was required before the name was popped).
C21_Witness ==
    /\ Resolved
    /\ \E e \in EntityNames : \E n, m \in Seeds(e) \cap DOMAIN Graph :
          /\ n # m
          /\ m \in Graph[n].dependencies
          /\ pop_count[e][n] = 1 /\ pop_count[e][m] = 1

\* The program keeps running: a step that can be taken is taken.
SpecResolverFair == SpecResolver /\ WF_vars(NextResolver)

\* The <<entity, n, m>> with n requested for the entity and n, m distinct
\* names that depend on each other.
RequestedCycles ==
    IF build_dependency_graph_raises(project) THEN {}
    ELSE {c \in EntityNames \X (DOMAIN Graph) \X (DOMAIN Graph) :
             /\ c[2] # c[3]
             /\ c[3] \in Graph[c[2]].dependencies
             /\ c[2] \in Graph[c[3]].dependencies
             /\ c[1] \in Range(requested_outputs.keys)
             /\ c[2] \in Range(requested_outputs.val[c[1]])}
Ended == pc \in {"resolved", "raised"}

\* C22, as stated: with a cycle among distinct names, one of them
\* requested, the worklist loops and the call does not return.
C22_CyclicCallNeverReturns == RequestedCycles # {} => ~Resolved

\* C22, amended: with such a cycle the call still ends, and when it returns
\* both names of the cycle are in the entity's required set.
C22_CyclicCallTerminates ==
    /\ (RequestedCycles # {}) ~> Ended
    /\ [](Resolved => \A c \in RequestedCycles : {c[2], c[3]} \subseteq Result(c[1]))
\* A call with a requested cycle that returned after popping both names.
C22_Witness ==
    /\ Resolved
    /\ \E c \in RequestedCycles : pop_count[c[1]][c[2]] = 1 /\ pop_count[c[1]][c[3]] = 1

\* The sub-queries the compiled query defines.
DefinedCtes == {query.ctes[i].cte_name : i \in 1..Len(query.ctes)}

\* C23: an entity name of required_vars without an Entity in the project is
\* skipped by _build_optimal_query: the query has no sub-query for it and no
\* reference to one, so the union names only sub-queries the query defines.
C23_UnknownEntityLeftOut ==
    pc \in {"fetch", "returned"} =>
        /\ \A e \in ResultEntities :
              skip_entity(project, e) =>
                 /\ \A i \in 1..Len(query.ctes) : query.ctes[i].entity_name # e
                 /\ cte_name(e) \notin Range(query.union)
        /\ Range(query.union) \subseteq DefinedCtes

(***************************************************************************)
(* More properties of Engine.execute                                       *)
(***************************************************************************)
\* A derived variable without function_name, or whose function_name is not
\* in the registry.
WithoutFunction(n) ==
    LET variable == variable_lookup(project)[n]
    IN /\ ~variable.is_input
       /\ \/ variable.function_name = "none"
          \/ variable.function_name \notin DictKeys(function_registry)
OwnedRequests == {r \in KnownRequests : Owns(r[1], r[2])}

\* C24: every requested variable that the project knows and the requested
\* entity owns has a key in the entity's result, also when it cannot be
\* resolved: a derived variable without function, or with a function the
\* registry does not have, is recorded with None, and resolving it does not
\* raise.
C24_UnresolvableRecordedAsNone ==
    execution.pc # "idle" =>
        /\ (\A r \in OwnedRequests : WithoutFunction(r[2])) => Executed
        /\ Executed =>
              \A r \in OwnedRequests :
                  /\ HasResult(r[1], r[2])
                  /\ WithoutFunction(r[2]) => ResultValue(r[1], r[2]) = None
\* A call that requested a variable whose function the registry lacks and a
\* variable that has a value, and recorded both.
C24_Witness ==
    /\ Executed
    /\ \E r, q \in OwnedRequests :
          /\ variable_lookup(project)[r[2]].function_name \notin
                DictKeys(function_registry) \cup {"none"}
          /\ ~variable_lookup(project)[r[2]].is_input
          /\ HasResult(r[1], r[2])
          /\ HasResult(q[1], q[2]) /\ ResultValue(q[1], q[2]) # None

\* C25: a Variable reports as input_variables the names it was declared
\* with, given as the input_variables keyword or under metadata; the graph
\* builder takes them as its dependencies and the Engine resolves them
\* (here for the chain input1 -> level1 -> ... -> levelN in both styles).
C25_DeclaredDependenciesReported ==
    \A n \in 1..MaxChain : \A byField \in BOOLEAN :
        (project = ChainProject(n, byField) /\ Executed) =>
            /\ \A k \in 2..(n + 1) :
                  /\ input_variables(project.variables[k]) = <<LevelNames[k - 1]>>
                  /\ build_dependency_graph(project)[LevelNames[k]].dependencies
                        = {LevelNames[k - 1]}
            /\ \E x \in {1, 2} : <<LevelNames[1], Some(x)>> \in EngineLocals.resolved

\* The graph has been built (line 53 of get_required_variables).
GraphBuilt == pc \notin {"start", "raised"}
DeclaredNames == {project.variables[i].name : i \in 1..Len(project.variables)}

\* C26: build_dependency_graph has one entry per distinct variable name; an
\* entry is made from a variable of that name, its dependencies are that
\* variable's input_variables and nothing more, and its foreign_keys maps
\* the own name to the referenced entity when the metadata declares a
\* foreign key and is empty otherwise.
C26_GraphEntries ==
    GraphBuilt =>
        /\ DOMAIN Graph = DeclaredNames
        /\ \A n \in DeclaredNames :
              /\ Graph[n].variable \in Range(project.variables)
              /\ Graph[n].variable.name = n
              /\ Graph[n].dependencies = Range(input_variables(Graph[n].variable))
              /\ Graph[n].foreign_keys =
                    IF Graph[n].variable.metadata.foreign_key = {} THEN {}
                    ELSE {<<n, DictGet(Graph[n].variable.metadata.foreign_key, "entity")>>}
\* A resolved call on a project with two variables of one name, a foreign
\* key and a variable whose dependency has a dependency of its own.
C26_Witness ==
    /\ Resolved
    /\ Cardinality(DeclaredNames) < Len(project.variables)
    /\ \E n \in DeclaredNames : Graph[n].foreign_keys # {}
    /\ \E n, m \in DeclaredNames :
          /\ m \in Graph[n].dependencies
          /\ Graph[m].dependencies \ Graph[n].dependencies # {}

\* The <<name, entity, value>> of the resolutions of input variables.
InputResolutions ==
    {x \in EngineLocals.resolved_for :
        x[1] \in ProjectVariableNames /\ variable_lookup(project)[x[1]].is_input}

C28_NoCrossEntityResolution ==
    execution.pc # "idle" =>
        \A x \in EngineLocals.resolved_for :
            variable_lookup(project)[x[1]].entity_id = entity_lookup(project)[x[2]].id

\* C29: over-fetched rows are dropped one by one: a returned row of an
\* entity that has no entry in the required-variable mapping leaves out
\* only itself; every returned row whose variable is in its entity's
\* required set still has its entity and variable in the result.
C29_OverFetchedRowsDroppedSingly ==
    (Returned /\ ~store_raised) =>
        \A row \in Rows :
            RowPasses(row) =>
                \E t \in results : t[1] = row.entity_name /\ t[2] = row.variable_name

(***************************************************************************)
(* QueryHelper: the connection pools                                       *)
(* (src/src/org/boxbuilder/database/postgres/query_helper.py)              *)
(***************************************************************************)
\* Coroutines on one event loop call one QueryHelper.  A coroutine runs
\* without interruption from one await to the next, so each action is the
\* code between two awaits.
Coroutines == 1..MaxCoroutines
Idle == [pc |-> "idle", database_name |-> "", pool |-> 0, position |-> 0, size |-> 0]

\* dict assignment: a new key goes to the end, an old key keeps its place.
dict_set(d, k, v) ==
    [keys |-> IF HasKey(d, k) THEN d.keys ELSE Append(d.keys, k),
     val |-> [d.val EXCEPT ![k] = v]]

\* line 46: database_name not in self._db_pool
pool_missing(d, database_name) == ~HasKey(d, database_name)

InitPool ==
    /\ call = "query_helper"
    /\ db_pool = NoPools
    /\ pools = <<>>
    /\ coroutines = [c \in Coroutines |-> Idle]
    /\ project = Project(<<EntityA>>, <<>>)
    /\ requested_outputs = NoOutputs
    /\ provided_inputs = NoInputs
    /\ pc = "idle"
    /\ required_vars = EmptyRequired
    /\ snapshot = <<>>
    /\ idx = 0
    /\ to_process = {}
    /\ pop_count = [e \in EntityNames |-> [n \in Names |-> 0]]
    /\ fk_added = {}
    /\ query = NoQuery
    /\ fetch_count = 0
    /\ store_raised = FALSE
    /\ query_results = <<>>
    /\ results = {}
    /\ function_registry = {}
    /\ inputs = NoSets
    /\ outputs = NoOutputs
    /\ execution = NotStarted
    /\ threads = NoThreads
    /\ thread_locals = NoThreads

\* lines 45-47 and 50: _get_connection_pool up to its await, or to its
\* return when the pool is there.
get_connection_pool(c, database_name) ==
    /\ coroutines[c].pc = "idle"
    /\ IF pool_missing(db_pool, database_name)
       THEN coroutines' = [coroutines EXCEPT ![c].pc = "creating",
                                             ![c].database_name = database_name]
       ELSE coroutines' = [coroutines EXCEPT ![c].pc = "done",
                                             ![c].database_name = database_name,
                                             ![c].pool = db_pool.val[database_name]]
    /\ UNCHANGED <<puller_vars, engine_vars, db_pool, pools>>

\* lines 47-50: create_pool has returned; the pool is stored and returned.
pool_created(c) ==
    LET new_pool == Len(pools) + 1
    IN /\ coroutines[c].pc = "creating"
       /\ pools' = Append(pools, [database_name |-> coroutines[c].database_name,
                                  closed |-> FALSE])
       /\ db_pool' = dict_set(db_pool, coroutines[c].database_name, new_pool)
       /\ coroutines' = [coroutines EXCEPT ![c].pc = "done", ![c].pool = new_pool]
       /\ UNCHANGED <<puller_vars, engine_vars>>

\* lines 391-394: close up to its first await, or to its return when there
\* is no pool.
close(c) ==
    /\ coroutines[c].pc = "idle"
    /\ IF db_pool.keys = <<>>
       THEN coroutines' = [coroutines EXCEPT ![c].pc = "closed"]
       ELSE coroutines' = [coroutines EXCEPT ![c].pc = "closing",
                                             ![c].position = 1,
                                             ![c].size = Len(db_pool.keys),
                                             ![c].pool = db_pool.val[db_pool.keys[1]]]
    /\ UNCHANGED <<puller_vars, engine_vars, db_pool, pools>>

\* lines 392-394: pool.close() has returned; the iteration goes on (it
\* raises RuntimeError when the dict changed size), and after the last pool
\* the dict is cleared.
pool_closed(c) ==
    LET co == coroutines[c]
    IN /\ co.pc = "closing"
       /\ pools' = [pools EXCEPT ![co.pool].closed = TRUE]
       /\ IF Len(db_pool.keys) # co.size
          THEN /\ coroutines' = [coroutines EXCEPT ![c].pc = "raised"]
               /\ UNCHANGED db_pool
          ELSE IF co.position = co.size
          THEN /\ coroutines' = [coroutines EXCEPT ![c].pc = "closed"]
               /\ db_pool' = NoPools
          ELSE /\ coroutines' =
                     [coroutines EXCEPT ![c].position = co.position + 1,
                                        ![c].pool = db_pool.val[db_pool.keys[co.position + 1]]]
               /\ UNCHANGED db_pool
       /\ UNCHANGED <<puller_vars, engine_vars>>

NextPool ==
    \E c \in Coroutines :
        \/ \E database_name \in DatabaseNames : get_connection_pool(c, database_name)
        \/ pool_created(c)
        \/ close(c)
        \/ pool_closed(c)
SpecPool == InitPool /\ [][NextPool]_vars

\* The pools that are open.
OpenPools == {p \in 1..Len(pools) : ~pools[p].closed}
PooledPools == {db_pool.val[d] : d \in Range(db_pool.keys)}

\* C30: a QueryHelper has at most one open pool per database name, also
\* when coroutines ask for the same name at overlapping times, and no pool
\* it created leaves _db_pool without being closed.
C30_OnePoolPerDatabase ==
    /\ \A p, q \in OpenPools : pools[p].database_name = pools[q].database_name => p = q
    /\ OpenPools \subseteq PooledPools

====
